---- MODULE Spec2Model ----
(***************************************************************************)
(* Fitness tracker: the workout form of app/page.tsx (Home) and the        *)
(* calorie endpoint of app/api/calculate-calories/route.ts (POST).         *)
(*                                                                         *)
(* JavaScript values are tagged records [t, v] so that a number, NaN,      *)
(* undefined, null and a Date can sit in the same field.                   *)
(***************************************************************************)
EXTENDS Integers, Sequences, FiniteSets, TLC

VARIABLES
    calories,        \* useState<number | null>(null)
    isLoading,       \* useState(false)
    lastWorkout,     \* useState<WorkoutFormData | null>(null)
    workoutHistory,  \* useState<WorkoutHistory[]>([])
    errors,          \* formState.errors: the fields the resolver rejected
    requests,        \* fetches of onSubmit that have not settled yet, in issue order
    log,             \* history variable: how each settled submission ended, in order
    invalidInput,    \* history variable: the form values the resolver last rejected
    srvRequest,      \* endpoint harness: the request handed to POST
    srvCompletion,   \* endpoint harness: what the completion call does
    srvResponse      \* endpoint harness: what POST answered

vars == <<calories, isLoading, lastWorkout, workoutHistory, errors, requests,
          log, invalidInput, srvRequest, srvCompletion, srvResponse>>

clientVars == <<calories, isLoading, lastWorkout, workoutHistory, errors,
                requests, log, invalidInput>>

srvVars == <<srvRequest, srvCompletion, srvResponse>>

---------------------------------------------------------------------------
\* Bounds

\* onSubmit calls in one behaviour
MaxSubmits == 2

\* characters in a completion text handed to the endpoint harness
MaxLen == 4

---------------------------------------------------------------------------
\* JavaScript values

Num(n) == [t |-> "number", v |-> n]

NaN == [t |-> "NaN", v |-> 0]

undefined == [t |-> "undefined", v |-> 0]

null == [t |-> "null", v |-> 0]

Date(d) == [t |-> "Date", v |-> d]

\* isNaN(x) for a value that is already a number or NaN
isNaN(x) == x.t = "NaN"

\* a + b of the reduce in the totals panel: a number plus undefined or NaN is NaN
JsAdd(a, b) ==
    IF a.t = "number" /\ b.t = "number" THEN Num(a.v + b.v) ELSE NaN

\* obj.calories: a missing property reads as undefined
GetCalories(obj) ==
    IF "calories" \in DOMAIN obj THEN obj.calories ELSE undefined

---------------------------------------------------------------------------
\* Texts: sequences of one-character strings

DigitChars == <<"0", "1", "2", "3", "4", "5", "6", "7", "8", "9">>

IsDigit(c) == \E i \in 1..Len(DigitChars) : DigitChars[i] = c

DigitVal(c) == (CHOOSE i \in 1..Len(DigitChars) : DigitChars[i] = c) - 1

\* the characters the modelled completion texts are made of
Chars == {"0", "2", "3", "4", "5", "a", " "}

RECURSIVE TextsOfLen(_)
TextsOfLen(n) ==
    IF n = 0 THEN {<<>>}
    ELSE {Append(s, c) : s \in TextsOfLen(n - 1), c \in Chars}

AllTexts == UNION {TextsOfLen(n) : n \in 0..MaxLen}

\* response.replace(/[^0-9]/g, '')
ReplaceNonDigits(s) == SelectSeq(s, IsDigit)

RECURSIVE TrimStart(_)
TrimStart(s) ==
    IF s # <<>> /\ Head(s) = " " THEN TrimStart(Tail(s)) ELSE s

RECURSIVE ParseDigits(_, _, _)
\* reads digits from the left until the first character that is not one
ParseDigits(s, acc, seen) ==
    IF s # <<>> /\ IsDigit(Head(s))
    THEN ParseDigits(Tail(s), acc * 10 + DigitVal(Head(s)), TRUE)
    ELSE IF seen THEN Num(acc) ELSE NaN

\* parseInt(string): leading white space skipped, then the longest run of
\* decimal digits; NaN when there is none
parseInt(s) == ParseDigits(TrimStart(s), 0, FALSE)

---------------------------------------------------------------------------
\* The endpoint: POST /api/calculate-calories

ErrorMessage == "Failed to calculate calories"

\* NextResponse.json({ calories })
Ok200(c) == [status |-> 200, body |-> [calories |-> c]]

\* NextResponse.json({ error: ... }, { status: 500 })
Error500 == [status |-> 500, body |-> [error |-> ErrorMessage]]

NoResponse == [status |-> 0, body |-> [error |-> ""]]

\* what openai.chat.completions.create does: it throws, or it returns a
\* completion whose first choice has a content text, or one without content
Throws == [kind |-> "throws", content |-> <<>>]

NoContent == [kind |-> "nocontent", content |-> <<>>]

Text(s) == [kind |-> "text", content |-> s]

AllCompletions == {Throws, NoContent} \cup {Text(s) : s \in AllTexts}

\* a request whose body request.json() can read, and one it cannot
JsonRequest(data) == [readable |-> TRUE, json |-> data]

BadRequest == [readable |-> FALSE, json |-> [exercise |-> ""]]

POSTNoStrip(request, completion) ==
    IF ~request.readable \/ completion.kind = "throws" THEN Error500
    ELSE LET response == IF completion.kind = "text" THEN completion.content ELSE <<>>
             cal == parseInt(response)
         IN  IF isNaN(cal) THEN Error500 ELSE Ok200(cal)

POSTNoNaNCheck(request, completion) ==
    IF ~request.readable \/ completion.kind = "throws" THEN Error500
    ELSE LET response == IF completion.kind = "text" THEN completion.content ELSE <<>>
             cal == parseInt(ReplaceNonDigits(response))
         IN  Ok200(cal)

POST(request, completion) ==
    IF ~request.readable \/ completion.kind = "throws"
    THEN Error500                                 \* catch: status 500
    ELSE LET response == IF completion.kind = "text" THEN completion.content ELSE <<>>
             cal == parseInt(ReplaceNonDigits(response))
         IN  IF isNaN(cal)
             THEN Error500                        \* throw new Error, caught
             ELSE Ok200(cal)

---------------------------------------------------------------------------
\* The form: workoutSchema and the values the inputs can hold

IntensityValues == {"low", "medium", "high"}

\* <input {...register('exercise')}>: any text, the empty one included
ExerciseInputs == {"", "Running"}

\* <input type="number" valueAsNumber>: a number, or NaN when left empty
DurationInputs == {NaN, Num(0), Num(1)}

\* <input type="date" valueAsDate>: a Date, or null when left empty
DateInputs == {null, Date(1), Date(2)}

FormInputs ==
    [exercise : ExerciseInputs, duration : DurationInputs,
     intensity : IntensityValues, date : DateInputs]

NoInput == [exercise |-> "", duration |-> undefined, intensity |-> "", date |-> undefined]

workoutSchemaMinZero(data) ==
    {f \in {"exercise"} : data.exercise = ""}
    \cup {f \in {"duration"} : data.duration.t # "number" \/ data.duration.v < 0}
    \cup {f \in {"intensity"} : data.intensity \notin IntensityValues}
    \cup {f \in {"date"} : data.date.t # "Date"}

\* the fields of data that workoutSchema has an issue with
workoutSchema(data) ==
    {f \in {"exercise"} : data.exercise = ""}                 \* z.string().min(1)
    \cup {f \in {"duration"} :                                 \* z.number().min(1)
            data.duration.t # "number" \/ data.duration.v < 1}
    \cup {f \in {"intensity"} :                                \* z.enum([...])
            data.intensity \notin IntensityValues}
    \cup {f \in {"date"} : data.date.t # "Date"}               \* z.date()

---------------------------------------------------------------------------
\* The client: Home

Record(data, cal) ==
    [exercise |-> data.exercise, duration |-> data.duration,
     intensity |-> data.intensity, date |-> data.date, calories |-> cal]

Remove(s, i) == SubSeq(s, 1, i - 1) \o SubSeq(s, i + 1, Len(s))

\* the totals panel: workoutHistory.length and the reduce over calories
RECURSIVE SumCalories(_, _)
SumCalories(h, sum) ==
    IF h = <<>> THEN sum ELSE SumCalories(Tail(h), JsAdd(sum, Head(h).calories))

TotalWorkouts == Len(workoutHistory)

TotalCalories == SumCalories(workoutHistory, Num(0))

\* the texts the completion call returns to a request of the form
ClientCompletions ==
    {Throws, NoContent, Text(<<"3", "0", "0">>), Text(<<"a">>),
     Text(<<"a", " ", "2", "4", "5", " ", "a">>)}

SubmitAlwaysEnabled == TRUE

\* <button type="submit" disabled={isLoading}>
SubmitEnabled == ~isLoading

PrependRecord(prev, rec) == <<rec>> \o prev

\* prev => [...prev, { ...data, calories: result.calories }]
AppendRecord(prev, rec) == Append(prev, rec)

\* handleSubmit(onSubmit) on a click of the submit button: the resolver runs
\* workoutSchema; with issues they become formState.errors and onSubmit is
\* not called; without, onSubmit(data) runs up to its await of fetch
HandleSubmit(data) ==
    /\ SubmitEnabled
    /\ Len(log) + Len(requests) < MaxSubmits
    /\ LET issues == workoutSchema(data)
       IN  IF issues # {}
           THEN /\ errors' = issues
                /\ invalidInput' = data
                /\ UNCHANGED <<calories, isLoading, lastWorkout, workoutHistory,
                               requests, log>>
           ELSE /\ errors' = {}
                /\ invalidInput' = NoInput
                /\ isLoading' = TRUE
                /\ requests' = Append(requests,
                       [data |-> data, stage |-> "sent", response |-> NoResponse])
                /\ UNCHANGED <<calories, lastWorkout, workoutHistory, log>>
    /\ UNCHANGED srvVars

\* the endpoint handles the request of fetch i and its response travels back
ServerHandle(i) ==
    /\ requests[i].stage = "sent"
    /\ \E completion \in ClientCompletions :
         requests' = [requests EXCEPT
             ![i].stage = "responded",
             ![i].response = POST(JsonRequest(requests[i].data), completion)]
    /\ UNCHANGED <<calories, isLoading, lastWorkout, workoutHistory, errors,
                   log, invalidInput>>
    /\ UNCHANGED srvVars

\* fetch i resolves with the endpoint's response: the rest of the try block
\* and the finally block of onSubmit
FetchResolved(i) ==
    /\ requests[i].stage = "responded"
    /\ LET data == requests[i].data
           response == requests[i].response
           result == response.body                     \* await response.json()
       IN  /\ calories' = GetCalories(result)
           /\ lastWorkout' = data
           /\ workoutHistory' =
                  AppendRecord(workoutHistory, Record(data, GetCalories(result)))
           /\ log' = Append(log,
                  [kind |-> IF response.status = 200 THEN "ok" ELSE "http_error",
                   calories |-> GetCalories(result)])
    /\ isLoading' = FALSE
    /\ requests' = Remove(requests, i)
    /\ UNCHANGED <<errors, invalidInput>>
    /\ UNCHANGED srvVars

FetchRejectedStaysBusy(i) ==
    /\ log' = Append(log, [kind |-> "network_error", calories |-> undefined])
    /\ requests' = Remove(requests, i)
    /\ UNCHANGED <<calories, isLoading, lastWorkout, workoutHistory, errors, invalidInput>>
    /\ UNCHANGED srvVars

\* fetch i rejects (the request or the response is lost in transport): the
\* catch block and the finally block of onSubmit
FetchRejected(i) ==
    /\ log' = Append(log, [kind |-> "network_error", calories |-> undefined])
    /\ isLoading' = FALSE
    /\ requests' = Remove(requests, i)
    /\ UNCHANGED <<calories, lastWorkout, workoutHistory, errors, invalidInput>>
    /\ UNCHANGED srvVars

Init ==
    /\ calories = null
    /\ isLoading = FALSE
    /\ lastWorkout = null
    /\ workoutHistory = <<>>
    /\ errors = {}
    /\ requests = <<>>
    /\ log = <<>>
    /\ invalidInput = NoInput
    /\ srvRequest = BadRequest
    /\ srvCompletion = Throws
    /\ srvResponse = NoResponse

Submit == \E data \in FormInputs : HandleSubmit(data)

Handle == \E i \in 1..Len(requests) : ServerHandle(i)

Resolve == \E i \in 1..Len(requests) : FetchResolved(i)

Reject == \E i \in 1..Len(requests) : FetchRejected(i)

Next == Submit \/ Handle \/ Resolve \/ Reject

Spec == Init /\ [][Next]_vars

\* a fetch that was issued settles: the endpoint answers every request it
\* receives, and a request that gets no answer ends in a rejected fetch
FairSpec == Spec /\ WF_vars(Handle \/ Resolve \/ Reject)

---------------------------------------------------------------------------
\* The endpoint alone, on every request and completion within the bounds

\* the endpoint does not look at the fields beyond putting them in the prompt
ServerRequests ==
    {BadRequest,
     JsonRequest([exercise |-> "Running", duration |-> Num(30),
                  intensity |-> "medium", date |-> Date(1)]),
     JsonRequest([exercise |-> "", duration |-> Num(0),
                  intensity |-> "low", date |-> null])}

ServerInit ==
    /\ calories = null
    /\ isLoading = FALSE
    /\ lastWorkout = null
    /\ workoutHistory = <<>>
    /\ errors = {}
    /\ requests = <<>>
    /\ log = <<>>
    /\ invalidInput = NoInput
    /\ srvRequest \in ServerRequests
    /\ srvCompletion \in AllCompletions
    /\ srvResponse = NoResponse

ServerRespond ==
    /\ srvResponse = NoResponse
    /\ srvResponse' = POST(srvRequest, srvCompletion)
    /\ UNCHANGED <<srvRequest, srvCompletion>>
    /\ UNCHANGED clientVars

ServerNext == ServerRespond

ServerSpec == ServerInit /\ [][ServerNext]_vars

---------------------------------------------------------------------------
\* Properties

Last(s) == s[Len(s)]

\* a step in which a submission settles, and how it ended
Settles == Len(log') = Len(log) + 1

SettlesFailed == Settles /\ Last(log').kind # "ok"

\* C1: a submission that ends in a transport failure or in a non-success
\* HTTP status leaves workoutHistory, and so both totals, as they were.
C1_FailedSubmissionKeepsHistory ==
    [][SettlesFailed =>
         /\ workoutHistory' = workoutHistory
         /\ TotalWorkouts' = TotalWorkouts
         /\ TotalCalories' = TotalCalories]_vars

\* C2: at most one estimation request is outstanding at any time, and no
\* step starts a fetch while isLoading is true.
C2_OneOutstandingRequest ==
    /\ Len(requests) <= 1
    /\ isLoading => Len(requests) = 1

C2_Witness ==
    /\ isLoading
    /\ Len(requests) = 1
    /\ requests[1].stage = "responded"
    /\ Len(log) >= 1

RECURSIVE SumOk(_)
SumOk(l) ==
    IF l = <<>> THEN 0
    ELSE (IF Head(l).kind = "ok" THEN Head(l).calories.v ELSE 0) + SumOk(Tail(l))

CountOk(l) == Len(SelectSeq(l, LAMBDA e : e.kind = "ok"))

\* C3: after N successful submissions with calories c1..cN, failed ones
\* interleaved in any way, the total workout count is N and the total
\* calories is c1 + ... + cN.
C3_HistoryAggregates ==
    /\ TotalWorkouts = CountOk(log)
    /\ TotalCalories = Num(SumOk(log))

C5_RecordsWellFormed ==
    \A i \in 1..Len(workoutHistory) :
        /\ workoutHistory[i].calories.t = "number"
        /\ workoutHistory[i].calories.v >= 0
        /\ workoutHistory[i].duration.t = "number"
        /\ workoutHistory[i].duration.v >= 1

DigitPositions(text) == {i \in 1..Len(text) : IsDigit(text[i])}

RECURSIVE Pow10(_)
Pow10(n) == IF n = 0 THEN 1 ELSE 10 * Pow10(n - 1)

RECURSIVE SumOver(_, _)
SumOver(S, text) ==
    IF S = {} THEN 0
    ELSE LET i == CHOOSE j \in S : TRUE
         IN  DigitVal(text[i])
                 * Pow10(Cardinality({j \in DigitPositions(text) : j > i}))
             + SumOver(S \ {i}, text)

\* the integer that the digit characters of text denote, read in order
DigitsValue(text) == SumOver(DigitPositions(text), text)

EstimationFails ==
    \/ ~srvRequest.readable
    \/ srvCompletion.kind # "text"
    \/ \A i \in 1..Len(srvCompletion.content) : ~IsDigit(srvCompletion.content[i])

\* C7: POST answers every request once, with 200 {calories: integer} or with
\* 500 {error: string}; 500 exactly when estimation fails, without a calories
\* field, and never a 200 without an integer calories.
C7_ResponseShape ==
    /\ [](srvResponse # NoResponse =>
            /\ \/ /\ srvResponse.status = 200
                  /\ DOMAIN srvResponse.body = {"calories"}
                  /\ srvResponse.body.calories.t = "number"
                  /\ srvResponse.body.calories.v \in Nat
               \/ /\ srvResponse.status = 500
                  /\ DOMAIN srvResponse.body = {"error"}
                  /\ srvResponse.body.error = ErrorMessage
            /\ srvResponse.status = 500 <=> EstimationFails)
    /\ [][srvResponse # NoResponse => srvResponse' = srvResponse]_vars

C7_Witness ==
    /\ srvRequest.readable
    /\ srvCompletion.kind = "text"
    /\ Len(srvCompletion.content) = MaxLen
    /\ srvResponse = Error500

\* the fields of a form that violate the rules of the schema
Offending(d) ==
    {f \in {"exercise", "duration", "intensity", "date"} :
        \/ f = "exercise" /\ d.exercise = ""
        \/ f = "duration" /\ ~(d.duration.t = "number" /\ d.duration.v >= 1)
        \/ f = "intensity" /\ d.intensity \notin {"low", "medium", "high"}
        \/ f = "date" /\ d.date.t # "Date"}

\* C8: onSubmit, and so the fetch, runs only for form values that pass the
\* schema; a form with a violating field starts no request, leaves history
\* and busy state unchanged and reports an error on each offending field.
C8_ValidationGatesNetwork ==
    /\ [](/\ \A i \in 1..Len(requests) : Offending(requests[i].data) = {}
          /\ \A i \in 1..Len(workoutHistory) : Offending(workoutHistory[i]) = {}
          /\ invalidInput # NoInput =>
                errors = Offending(invalidInput) /\ errors # {})
    /\ [][invalidInput' # NoInput =>
            UNCHANGED <<workoutHistory, isLoading, requests, calories,
                        lastWorkout, log>>]_vars

C8_Witness ==
    /\ invalidInput # NoInput
    /\ invalidInput.duration = Num(0)
    /\ invalidInput.exercise = "Running"
    /\ errors = {"duration"}
    /\ Len(workoutHistory) = 1
    /\ ~isLoading

\* C9: isLoading starts false, is true exactly while a request of onSubmit is
\* pending, and is false again once the request has settled, by success or by
\* failure; settling a submission issues no further request.
C9_BusyLifecycle ==
    /\ ~isLoading
    /\ [](isLoading <=> requests # <<>>)
    /\ [][/\ Len(requests') <= Len(requests) + 1
          /\ Settles => Len(requests') = Len(requests) - 1 /\ ~isLoading']_vars
    /\ (isLoading ~> ~isLoading)

C9_Witness ==
    /\ ~isLoading
    /\ Len(log) = 2
    /\ log[1].kind = "network_error"
    /\ log[2].kind = "ok"

\* C10: between submissions calories is non-null exactly when the history is
\* non-empty, and then calories and lastWorkout are those of the last record;
\* a submission that fails leaves calories and lastWorkout as they were.
C10_ResultPanelAgrees ==
    /\ [](~isLoading =>
            /\ calories # null <=> workoutHistory # <<>>
            /\ workoutHistory # <<>> =>
                  /\ calories = Last(workoutHistory).calories
                  /\ Record(lastWorkout, calories) = Last(workoutHistory))
    /\ [][SettlesFailed =>
            calories' = calories /\ lastWorkout' = lastWorkout]_vars

====
